---- MODULE Spec2Model ----
(***************************************************************************)
(* Shape-level model of mangalineextraction/model.py.                      *)
(*                                                                         *)
(* A tensor is abstracted to its shape (n, c, h, w).  Every layer is       *)
(* modelled by what it does to a shape: convolutions by the Conv2d         *)
(* output-size formula and their channel check, Upsample by doubling,      *)
(* `+` by the broadcasting rule of the tensor library.  The field          *)
(* `bcast` of a tensor is a ghost: it records that some addition on the    *)
(* way to this value had operands of different shapes and succeeded by     *)
(* broadcasting.                                                           *)
(*                                                                         *)
(* Spec     : one evaluation of MangaLineExtractor.forward, one step per   *)
(*            statement of forward.                                        *)
(* SpecUnit : construction of a single unit or stage with arbitrary        *)
(*            declared parameters, followed by one call of its forward.    *)
(***************************************************************************)
EXTENDS Integers, Sequences, FiniteSets, TLC

\* ------------------------------------------------------------------ bounds
MaxDim == 64        \* largest input height / width of a network evaluation
MaxBatch == 2       \* largest batch size of a network evaluation
MaxFilters == 3     \* largest declared filter count of a stand-alone unit
MaxReps == 3        \* largest repetition count of a stand-alone stage
MaxUnitDim == 3     \* largest input height / width of a stand-alone unit

VARIABLES
    pc,       \* position of forward: the statement to execute next, "done" or "raised"
    loc,      \* the locals of forward: x, x0..x9, res1..res4, y
    log,      \* statements of forward started so far, in order
    reads,    \* pairs <<statement, local>>: the locals each statement has read
    upc,      \* stand-alone unit: "new", "constructed", "returned" or "raised"
    unit,     \* stand-alone unit: the constructed module
    ux, uy,   \* stand-alone unit: arguments of the call of forward
    uargs,    \* stand-alone unit: the arguments its constructor was called with
    umain,    \* stand-alone unit: the main-path operand of the unit's addition
    uskip,    \* stand-alone unit: the shortcut-path operand of the unit's addition
    uout      \* stand-alone unit: the value forward returned

vars == <<pc, loc, log, reads, upc, unit, uargs, ux, uy, umain, uskip, uout>>
netvars == <<pc, loc, log, reads>>
unitvars == <<upc, unit, uargs, ux, uy, umain, uskip, uout>>

\* ----------------------------------------------------------------- tensors
Tensor(n, c, h, w, b) == [ok |-> TRUE, n |-> n, c |-> c, h |-> h, w |-> w, bcast |-> b]
\* the value of a local that is not assigned yet / the outcome of an evaluation that raised
None == [ok |-> FALSE, n |-> 0, c |-> 0, h |-> 0, w |-> 0, bcast |-> FALSE]
Err == None
Shape(t) == <<t.n, t.c, t.h, t.w>>

\* torch.nn.Conv2d output size along one axis
ConvOut(size, k, s, p) == ((size + 2 * p - k) \div s) + 1

\* nn.BatchNorm2d(in_filters): shape preserved, channel count checked
BatchNorm2d(in_filters, x) ==
    IF ~x.ok \/ x.c # in_filters THEN Err ELSE x

\* nn.LeakyReLU: elementwise
LeakyReLU(x) == x

\* nn.Conv2d(in_filters, nb_filters, (kh, kw), stride, padding=(ph, pw))
Conv2d(in_filters, nb_filters, kh, kw, stride, ph, pw, x) ==
    IF ~x.ok \/ x.c # in_filters \/ x.h + 2 * ph < kh \/ x.w + 2 * pw < kw
    THEN Err
    ELSE Tensor(x.n, nb_filters, ConvOut(x.h, kh, stride, ph), ConvOut(x.w, kw, stride, pw), x.bcast)

\* nn.Upsample(scale_factor=2, mode="nearest")
Upsample(x) ==
    IF ~x.ok THEN Err ELSE Tensor(x.n, x.c, 2 * x.h, 2 * x.w, x.bcast)

\* one axis of a broadcasting addition: 0 when the sizes are incompatible
BroadcastDim(p, q) == IF p = q THEN p ELSE IF p = 1 THEN q ELSE IF q = 1 THEN p ELSE 0

\* a + b on tensors: equal sizes, or a size-1 axis stretched; raises otherwise
Add(a, b) ==
    IF ~a.ok \/ ~b.ok THEN Err
    ELSE LET n == BroadcastDim(a.n, b.n)
             c == BroadcastDim(a.c, b.c)
             h == BroadcastDim(a.h, b.h)
             w == BroadcastDim(a.w, b.w)
         IN IF n = 0 \/ c = 0 \/ h = 0 \/ w = 0 THEN Err
            ELSE Tensor(n, c, h, w, a.bcast \/ b.bcast \/ Shape(a) # Shape(b))

\* ------------------------------------------------------------- _BnReluConv
BnReluConv_init(in_filters, nb_filters, fw, fh, subsample) ==
    [kind |-> "BnReluConv", in_filters |-> in_filters, nb_filters |-> nb_filters,
     fw |-> fw, fh |-> fh, subsample |-> subsample]

\* mutant: the convolution built without padding
BnReluConv_forward_Unpadded(m, x) ==
    Conv2d(m.in_filters, m.nb_filters, m.fw, m.fh, m.subsample, 0, 0,
           LeakyReLU(BatchNorm2d(m.in_filters, x)))

BnReluConv_forward(m, x) ==
    Conv2d(m.in_filters, m.nb_filters, m.fw, m.fh, m.subsample, m.fw \div 2, m.fh \div 2,
           LeakyReLU(BatchNorm2d(m.in_filters, x)))

\* ------------------------------------------------------------ _UBnReluConv
UBnReluConv_init(in_filters, nb_filters, fw, fh, subsample) ==
    [kind |-> "UBnReluConv", in_filters |-> in_filters, nb_filters |-> nb_filters,
     fw |-> fw, fh |-> fh, subsample |-> subsample]

UBnReluConv_forward(m, x) ==
    Upsample(Conv2d(m.in_filters, m.nb_filters, m.fw, m.fh, m.subsample, m.fw \div 2, m.fh \div 2,
                    LeakyReLU(BatchNorm2d(m.in_filters, x))))

\* --------------------------------------------------------------- _Shortcut
Shortcut_init(in_filters, nb_filters, subsample) ==
    [kind |-> "Shortcut", in_filters |-> in_filters, nb_filters |-> nb_filters,
     subsample |-> subsample,
     process |-> (in_filters # nb_filters \/ subsample # 1)]

\* the operand that _Shortcut.forward adds to y
Shortcut_operand(m, x) ==
    IF m.process
    THEN Conv2d(m.in_filters, m.nb_filters, 1, 1, m.subsample, 0, 0, x)
    ELSE x

Shortcut_forward(m, x, y) == Add(Shortcut_operand(m, x), y)

\* -------------------------------------------------------------- _UShortcut
UShortcut_init(in_filters, nb_filters, subsample) ==
    [kind |-> "UShortcut", in_filters |-> in_filters, nb_filters |-> nb_filters,
     subsample |-> subsample,
     process |-> (in_filters # nb_filters)]

\* the operand that _UShortcut.forward adds to y
UShortcut_operand(m, x) ==
    IF m.process
    THEN Upsample(Conv2d(m.in_filters, m.nb_filters, 1, 1, m.subsample, 0, 0, x))
    ELSE x

UShortcut_forward(m, x, y) == Add(UShortcut_operand(m, x), y)

\* -------------------------------------------------------------- BasicBlock
BasicBlock_init(in_filters, nb_filters, init_subsample) ==
    [kind |-> "BasicBlock",
     conv1 |-> BnReluConv_init(in_filters, nb_filters, 3, 3, init_subsample),
     residual |-> BnReluConv_init(nb_filters, nb_filters, 3, 3, 1),
     shortcut |-> Shortcut_init(in_filters, nb_filters, init_subsample)]

\* x2 of BasicBlock.forward: the main path
BasicBlock_main(m, x) == BnReluConv_forward(m.residual, BnReluConv_forward(m.conv1, x))

BasicBlock_forward(m, x) == Shortcut_forward(m.shortcut, x, BasicBlock_main(m, x))

\* ------------------------------------------------------------ _UBasicBlock
UBasicBlock_init(in_filters, nb_filters, init_subsample) ==
    [kind |-> "UBasicBlock",
     conv1 |-> UBnReluConv_init(in_filters, nb_filters, 3, 3, init_subsample),
     residual |-> BnReluConv_init(nb_filters, nb_filters, 3, 3, 1),
     shortcut |-> UShortcut_init(in_filters, nb_filters, init_subsample)]

\* y of _UBasicBlock.forward: the main path
UBasicBlock_main(m, x) == BnReluConv_forward(m.residual, UBnReluConv_forward(m.conv1, x))

UBasicBlock_forward(m, x) == UShortcut_forward(m.shortcut, x, UBasicBlock_main(m, x))

\* ----------------------------------------------------------- nn.Sequential
Layer_forward(l, x) ==
    IF l.kind = "UBasicBlock" THEN UBasicBlock_forward(l, x) ELSE BasicBlock_forward(l, x)

RECURSIVE Sequential_forward(_, _)
Sequential_forward(layers, x) ==
    IF layers = <<>> THEN x
    ELSE IF ~x.ok THEN Err
    ELSE Sequential_forward(Tail(layers), Layer_forward(Head(layers), x))

\* ---------------------------------------------------------- _ResidualBlock
\* mutant: is_first_layer ignored, every stage ends with a stride-2 unit
ResidualBlock_init_AlwaysStrided(in_filters, nb_filters, repetitions, is_first_layer) ==
    [i \in 1..repetitions |->
        BasicBlock_init(IF i = 1 THEN in_filters ELSE nb_filters, nb_filters,
                        IF i = repetitions THEN 2 ELSE 1)]

\* mutant: the stride-2 unit is the first unit of the stage, not the last
ResidualBlock_init_StridedFirst(in_filters, nb_filters, repetitions, is_first_layer) ==
    [i \in 1..repetitions |->
        BasicBlock_init(IF i = 1 THEN in_filters ELSE nb_filters, nb_filters,
                        IF i = 1 /\ ~is_first_layer THEN 2 ELSE 1)]

\* mutant: every unit is built with the stage's in_filters
ResidualBlock_init_SameInFilters(in_filters, nb_filters, repetitions, is_first_layer) ==
    [i \in 1..repetitions |->
        BasicBlock_init(in_filters, nb_filters,
                        IF i = repetitions /\ ~is_first_layer THEN 2 ELSE 1)]

ResidualBlock_init(in_filters, nb_filters, repetitions, is_first_layer) ==
    [i \in 1..repetitions |->
        BasicBlock_init(IF i = 1 THEN in_filters ELSE nb_filters, nb_filters,
                        IF i = repetitions /\ ~is_first_layer THEN 2 ELSE 1)]

\* ------------------------------------------------ _UpsamplingResidualBlock
\* mutant: unit 0 is an ordinary BasicBlock, nothing upsamples
UpsamplingResidualBlock_init_NoUpsampling(in_filters, nb_filters, repetitions) ==
    [i \in 1..repetitions |->
        BasicBlock_init(IF i = 1 THEN in_filters ELSE nb_filters, nb_filters, 1)]

UpsamplingResidualBlock_init(in_filters, nb_filters, repetitions) ==
    [i \in 1..repetitions |->
        IF i = 1 THEN UBasicBlock_init(in_filters, nb_filters, 1)
        ELSE BasicBlock_init(nb_filters, nb_filters, 1)]

\* ------------------------------------------- MangaLineExtractor.__init__
block0 == ResidualBlock_init(1, 24, 2, TRUE)
block1 == ResidualBlock_init(24, 48, 3, FALSE)
block2 == ResidualBlock_init(48, 96, 5, FALSE)
block3 == ResidualBlock_init(96, 192, 7, FALSE)
block4 == ResidualBlock_init(192, 384, 12, FALSE)

block5 == UpsamplingResidualBlock_init(384, 192, 7)
res1 == Shortcut_init(192, 192, 1)

block6 == UpsamplingResidualBlock_init(192, 96, 5)
res2 == Shortcut_init(96, 96, 1)

block7 == UpsamplingResidualBlock_init(96, 48, 3)
\* mutant: res3 built with the filter counts of block7
res3_Projecting == Shortcut_init(96, 48, 1)
res3 == Shortcut_init(48, 48, 1)

block8 == UpsamplingResidualBlock_init(48, 24, 2)
res4 == Shortcut_init(24, 24, 1)

block9 == ResidualBlock_init(24, 16, 2, TRUE)
conv15 == BnReluConv_init(16, 1, 1, 1, 1)

\* -------------------------------------------- MangaLineExtractor.forward
\* mutant: res1 and res2 read each other's captured encoder output
Forward_CrossedCaptures ==
    << [stmt |-> "block0", target |-> "x0",   args |-> <<"x">>],
       [stmt |-> "block1", target |-> "x1",   args |-> <<"x0">>],
       [stmt |-> "block2", target |-> "x2",   args |-> <<"x1">>],
       [stmt |-> "block3", target |-> "x3",   args |-> <<"x2">>],
       [stmt |-> "block4", target |-> "x4",   args |-> <<"x3">>],
       [stmt |-> "block5", target |-> "x5",   args |-> <<"x4">>],
       [stmt |-> "res1",   target |-> "res1", args |-> <<"x2", "x5">>],
       [stmt |-> "block6", target |-> "x6",   args |-> <<"res1">>],
       [stmt |-> "res2",   target |-> "res2", args |-> <<"x3", "x6">>],
       [stmt |-> "block7", target |-> "x7",   args |-> <<"res2">>],
       [stmt |-> "res3",   target |-> "res3", args |-> <<"x1", "x7">>],
       [stmt |-> "block8", target |-> "x8",   args |-> <<"res3">>],
       [stmt |-> "res4",   target |-> "res4", args |-> <<"x0", "x8">>],
       [stmt |-> "block9", target |-> "x9",   args |-> <<"res4">>],
       [stmt |-> "conv15", target |-> "y",    args |-> <<"x9">>] >>

\* the statements of forward in program order: the module called, the local
\* assigned and the locals passed
Forward ==
    << [stmt |-> "block0", target |-> "x0",   args |-> <<"x">>],
       [stmt |-> "block1", target |-> "x1",   args |-> <<"x0">>],
       [stmt |-> "block2", target |-> "x2",   args |-> <<"x1">>],
       [stmt |-> "block3", target |-> "x3",   args |-> <<"x2">>],
       [stmt |-> "block4", target |-> "x4",   args |-> <<"x3">>],
       [stmt |-> "block5", target |-> "x5",   args |-> <<"x4">>],
       [stmt |-> "res1",   target |-> "res1", args |-> <<"x3", "x5">>],
       [stmt |-> "block6", target |-> "x6",   args |-> <<"res1">>],
       [stmt |-> "res2",   target |-> "res2", args |-> <<"x2", "x6">>],
       [stmt |-> "block7", target |-> "x7",   args |-> <<"res2">>],
       [stmt |-> "res3",   target |-> "res3", args |-> <<"x1", "x7">>],
       [stmt |-> "block8", target |-> "x8",   args |-> <<"res3">>],
       [stmt |-> "res4",   target |-> "res4", args |-> <<"x0", "x8">>],
       [stmt |-> "block9", target |-> "x9",   args |-> <<"res4">>],
       [stmt |-> "conv15", target |-> "y",    args |-> <<"x9">>] >>

Locals == {"x"} \cup {Forward[i].target : i \in 1..Len(Forward)}

\* statement i of forward: evaluate the call, then assign the local and go
\* on to the next statement, or propagate the exception to the caller
Exec(i, result) ==
    /\ pc = Forward[i].stmt
    /\ log' = Append(log, Forward[i].stmt)
    /\ reads' = reads \cup {<<Forward[i].stmt, Forward[i].args[k]>> : k \in 1..Len(Forward[i].args)}
    /\ IF result.ok
       THEN /\ loc' = [loc EXCEPT ![Forward[i].target] = result]
            /\ pc' = IF i = Len(Forward) THEN "done" ELSE Forward[i + 1].stmt
       ELSE /\ loc' = loc
            /\ pc' = "raised"
    /\ UNCHANGED unitvars

Stage(i, m) == Exec(i, Sequential_forward(m, loc[Forward[i].args[1]]))
Fusion(i, m) == Exec(i, Shortcut_forward(m, loc[Forward[i].args[1]], loc[Forward[i].args[2]]))

Fwd_block0 == pc = "block0" /\ Stage(1, block0)
Fwd_block1 == pc = "block1" /\ Stage(2, block1)
Fwd_block2 == pc = "block2" /\ Stage(3, block2)
Fwd_block3 == pc = "block3" /\ Stage(4, block3)
Fwd_block4 == pc = "block4" /\ Stage(5, block4)
Fwd_block5 == pc = "block5" /\ Stage(6, block5)
Fwd_res1 == pc = "res1" /\ Fusion(7, res1)
Fwd_block6 == pc = "block6" /\ Stage(8, block6)
Fwd_res2 == pc = "res2" /\ Fusion(9, res2)
Fwd_block7 == pc = "block7" /\ Stage(10, block7)
Fwd_res3 == pc = "res3" /\ Fusion(11, res3)
Fwd_block8 == pc = "block8" /\ Stage(12, block8)
Fwd_res4 == pc = "res4" /\ Fusion(13, res4)
Fwd_block9 == pc = "block9" /\ Stage(14, block9)
Fwd_conv15 == pc = "conv15" /\ Exec(15, BnReluConv_forward(conv15, loc[Forward[15].args[1]]))

UnitIdle ==
    /\ upc = "new" /\ unit = None /\ uargs = None
    /\ ux = None /\ uy = None /\ umain = None /\ uskip = None /\ uout = None

\* a caller passes a (batch, 1, H, W) tensor to forward
Init ==
    /\ pc = Forward[1].stmt
    /\ \E n \in 1..MaxBatch, h \in 1..MaxDim, w \in 1..MaxDim :
          loc = [k \in Locals |-> IF k = "x" THEN Tensor(n, 1, h, w, FALSE) ELSE None]
    /\ log = <<>>
    /\ reads = {}
    /\ UnitIdle

Next ==
    \/ Fwd_block0 \/ Fwd_block1 \/ Fwd_block2 \/ Fwd_block3 \/ Fwd_block4
    \/ Fwd_block5 \/ Fwd_res1
    \/ Fwd_block6 \/ Fwd_res2
    \/ Fwd_block7 \/ Fwd_res3
    \/ Fwd_block8 \/ Fwd_res4
    \/ Fwd_block9 \/ Fwd_conv15

Spec == Init /\ [][Next]_vars

\* ------------------------------------------------------ stand-alone units
\* the tensors a stand-alone unit is called with
UnitTensors ==
    {Tensor(1, c, h, w, FALSE) : c \in 1..MaxFilters, h \in 1..MaxUnitDim, w \in 1..MaxUnitDim}

NetIdle ==
    /\ pc = "done" /\ loc = [k \in Locals |-> None] /\ log = <<>> /\ reads = {}

InitUnit ==
    /\ NetIdle
    /\ UnitIdle

UnitArgs(in_filters, nb_filters, subsample, repetitions, is_first_layer) ==
    [in_filters |-> in_filters, nb_filters |-> nb_filters, subsample |-> subsample,
     repetitions |-> repetitions, is_first_layer |-> is_first_layer]

\* a constructor call: the module is built once and never changed afterwards
Construct(m, args) ==
    /\ upc = "new"
    /\ unit' = m
    /\ uargs' = args
    /\ upc' = "constructed"
    /\ UNCHANGED <<ux, uy, umain, uskip, uout>>
    /\ UNCHANGED netvars

\* a call of forward(x) or forward(x, y): main and skip are the two operands
\* of the unit's addition, result what the call returns (not ok: it raised)
Call(kind, x, y, main, skip, result) ==
    /\ upc = "constructed"
    /\ unit.kind = kind
    /\ ux' = x /\ uy' = y
    /\ umain' = main /\ uskip' = skip
    /\ IF result.ok
       THEN uout' = result /\ upc' = "returned"
       ELSE uout' = None /\ upc' = "raised"
    /\ UNCHANGED <<unit, uargs>>
    /\ UNCHANGED netvars

New_Shortcut ==
    /\ upc = "new"
    /\ \E i \in 1..MaxFilters, o \in 1..MaxFilters, s \in 1..2 :
        Construct(Shortcut_init(i, o, s), UnitArgs(i, o, s, 1, FALSE))

New_UShortcut ==
    /\ upc = "new"
    /\ \E i \in 1..MaxFilters, o \in 1..MaxFilters, s \in 1..2 :
        Construct(UShortcut_init(i, o, s), UnitArgs(i, o, s, 1, FALSE))

New_BasicBlock ==
    /\ upc = "new"
    /\ \E i \in 1..MaxFilters, o \in 1..MaxFilters, s \in 1..2 :
        Construct(BasicBlock_init(i, o, s), UnitArgs(i, o, s, 1, FALSE))

New_UBasicBlock ==
    /\ upc = "new"
    /\ \E i \in 1..MaxFilters, o \in 1..MaxFilters, s \in 1..2 :
        Construct(UBasicBlock_init(i, o, s), UnitArgs(i, o, s, 1, FALSE))

New_ResidualBlock ==
    /\ upc = "new"
    /\ \E i \in 1..MaxFilters, o \in 1..MaxFilters, r \in 1..MaxReps, f \in BOOLEAN :
        Construct([kind |-> "ResidualBlock", model |-> ResidualBlock_init(i, o, r, f)],
                  UnitArgs(i, o, 1, r, f))

New_UpsamplingResidualBlock ==
    /\ upc = "new"
    /\ \E i \in 1..MaxFilters, o \in 1..MaxFilters, r \in 1..MaxReps :
        Construct([kind |-> "UpsamplingResidualBlock", model |-> UpsamplingResidualBlock_init(i, o, r)],
                  UnitArgs(i, o, 1, r, FALSE))

Call_Shortcut ==
    /\ upc = "constructed"
    /\ \E x \in UnitTensors, y \in UnitTensors :
        Call("Shortcut", x, y, y, Shortcut_operand(unit, x), Shortcut_forward(unit, x, y))

Call_UShortcut ==
    /\ upc = "constructed"
    /\ \E x \in UnitTensors, y \in UnitTensors :
        Call("UShortcut", x, y, y, UShortcut_operand(unit, x), UShortcut_forward(unit, x, y))

Call_BasicBlock ==
    /\ upc = "constructed"
    /\ \E x \in UnitTensors :
        Call("BasicBlock", x, None, BasicBlock_main(unit, x),
             Shortcut_operand(unit.shortcut, x), BasicBlock_forward(unit, x))

Call_UBasicBlock ==
    /\ upc = "constructed"
    /\ \E x \in UnitTensors :
        Call("UBasicBlock", x, None, UBasicBlock_main(unit, x),
             UShortcut_operand(unit.shortcut, x), UBasicBlock_forward(unit, x))

Call_ResidualBlock ==
    /\ upc = "constructed"
    /\ \E x \in UnitTensors :
        Call("ResidualBlock", x, None, None, None, Sequential_forward(unit.model, x))

Call_UpsamplingResidualBlock ==
    /\ upc = "constructed"
    /\ \E x \in UnitTensors :
        Call("UpsamplingResidualBlock", x, None, None, None, Sequential_forward(unit.model, x))

NextUnit ==
    \/ New_Shortcut \/ New_UShortcut \/ New_BasicBlock \/ New_UBasicBlock
    \/ New_ResidualBlock \/ New_UpsamplingResidualBlock
    \/ Call_Shortcut \/ Call_UShortcut \/ Call_BasicBlock \/ Call_UBasicBlock
    \/ Call_ResidualBlock \/ Call_UpsamplingResidualBlock

SpecUnit == InitUnit /\ [][NextUnit]_vars

\* ================================================================ claims
Mult(k, t) == t.h % k = 0 /\ t.w % k = 0
HW(t) == <<t.h, t.w>>

\* the locals holding the outputs of the encoder stages 0..4 and of the
\* decoder stages 0..3, and the modules of the encoder stages
EncOut == <<"x0", "x1", "x2", "x3", "x4">>
DecOut == <<"x5", "x6", "x7", "x8">>
EncStage == <<block0, block1, block2, block3, block4>>
DecStage == <<block5, block6, block7, block8>>

\* C1: shape preservation.  For every batch size and every H, W that are
\* multiples of 32, forward on (batch, 1, H, W) never raises, and the tensor
\* it returns has shape exactly (batch, 1, H, W).
C1_ShapePreservation ==
    Mult(32, loc["x"]) =>
        /\ pc # "raised"
        /\ pc = "done" =>
              /\ loc["y"].ok
              /\ Shape(loc["y"]) = <<loc["x"].n, 1, loc["x"].h, loc["x"].w>>

C1_Witness ==
    /\ pc = "done"
    /\ Shape(loc["x"]) = <<2, 1, 32, 64>>
    /\ Shape(loc["y"]) = <<2, 1, 32, 64>>

\* C2: a shape mismatch at an addition is fatal.  No local of forward, the
\* returned y included, is ever a value that an addition computed from
\* operands of different shapes (by stretching a size-1 axis).
C2_NoSilentBroadcast ==
    \A k \in Locals : loc[k].ok => ~loc[k].bcast

\* C3 as stated: for H, W multiples of 32 the spatial size of decoder stage
\* j's output (j = 0..3 for block5..block8) equals the spatial size of
\* encoder stage (4 - j)'s output.
C3_DecoderLawAsStated ==
    Mult(32, loc["x"]) =>
        \A j \in 0..3 :
            loc[DecOut[j + 1]].ok =>
                /\ loc[EncOut[(4 - j) + 1]].ok
                /\ HW(loc[DecOut[j + 1]]) = HW(loc[EncOut[(4 - j) + 1]])

\* C3 amended: for H, W multiples of 32 the spatial size of decoder stage
\* j's output (j = 0..3 for block5..block8) equals the spatial size of
\* encoder stage (3 - j)'s output.
C3_DecoderLaw ==
    Mult(32, loc["x"]) =>
        \A j \in 0..3 :
            loc[DecOut[j + 1]].ok =>
                /\ loc[EncOut[(3 - j) + 1]].ok
                /\ HW(loc[DecOut[j + 1]]) = HW(loc[EncOut[(3 - j) + 1]])

C3_Witness ==
    /\ pc = "res4"
    /\ HW(loc["x"]) = <<64, 32>>
    /\ HW(loc["x5"]) = <<8, 4>> /\ HW(loc["x3"]) = <<8, 4>>
    /\ HW(loc["x8"]) = <<64, 32>> /\ HW(loc["x0"]) = <<64, 32>>

\* C4: encoder resolution law.  For H, W multiples of 32 the output of
\* encoder stage i (i = 0..4) has spatial size (H / 2^i) x (W / 2^i); inside
\* a stage no unit before the last changes the resolution, the last unit of
\* stage 0 does not change it either, and the last unit of stages 1..4
\* halves it.
C4_EncoderLaw ==
    Mult(32, loc["x"]) =>
        \A i \in 0..4 :
            loc[EncOut[i + 1]].ok =>
                LET out == loc[EncOut[i + 1]]
                    inp == loc[IF i = 0 THEN "x" ELSE EncOut[i]]
                    m == EncStage[i + 1]
                IN /\ out.h * (2 ^ i) = loc["x"].h
                   /\ out.w * (2 ^ i) = loc["x"].w
                   /\ \A k \in 0..(Len(m) - 1) :
                         HW(Sequential_forward(SubSeq(m, 1, k), inp)) = HW(inp)
                   /\ Sequential_forward(m, inp) = out
                   /\ IF i = 0 THEN HW(out) = HW(inp)
                               ELSE 2 * out.h = inp.h /\ 2 * out.w = inp.w

C4_Witness ==
    /\ pc = "block5"
    /\ HW(loc["x"]) = <<64, 64>>
    /\ HW(loc["x0"]) = <<64, 64>>
    /\ HW(loc["x4"]) = <<4, 4>>

\* the four fusions: the unit, the local it assigns, the captured encoder
\* output, the decoder output and the channel count
FusionTable ==
    << [unit |-> res1, out |-> "res1", enc |-> "x3", dec |-> "x5", ch |-> 192],
       [unit |-> res2, out |-> "res2", enc |-> "x2", dec |-> "x6", ch |-> 96],
       [unit |-> res3, out |-> "res3", enc |-> "x1", dec |-> "x7", ch |-> 48],
       [unit |-> res4, out |-> "res4", enc |-> "x0", dec |-> "x8", ch |-> 24] >>

\* C5: fusion operand agreement.  For H, W multiples of 32, at each of the
\* fusions res1(x3, x5), res2(x2, x6), res3(x1, x7), res4(x0, x8) both
\* operands have 192, 96, 48, 24 channels respectively and the same height
\* and width, the fusion unit is the non-projecting variant, and the fused
\* value is the sum of the two operands, of that same shape, computed
\* without stretching an axis.
C5_FusionAgreement ==
    Mult(32, loc["x"]) =>
        \A f \in 1..4 :
            LET e == loc[FusionTable[f].enc]
                d == loc[FusionTable[f].dec]
                r == loc[FusionTable[f].out]
            IN /\ ~FusionTable[f].unit.process
               /\ d.ok =>
                     /\ e.ok
                     /\ e.c = FusionTable[f].ch /\ d.c = FusionTable[f].ch
                     /\ Shape(e) = Shape(d)
               /\ r.ok =>
                     /\ d.ok
                     /\ r = Add(e, d)
                     /\ Shape(r) = Shape(e)
                     /\ ~r.bcast

C5_Witness ==
    /\ pc = "block9"
    /\ Shape(loc["x"]) = <<1, 1, 32, 32>>
    /\ Shape(loc["res1"]) = <<1, 192, 4, 4>>
    /\ Shape(loc["res2"]) = <<1, 96, 8, 8>>
    /\ Shape(loc["res3"]) = <<1, 48, 16, 16>>
    /\ Shape(loc["res4"]) = <<1, 24, 32, 32>>

\* the order of evaluation the claim C7 states
StatedOrder ==
    <<"block0", "block1", "block2", "block3", "block4",
      "block5", "res1", "block6", "res2", "block7", "res3", "block8", "res4",
      "block9", "conv15">>

\* the fusions with the captured encoder output each reads and the encoder
\* stage that produces it
StatedCaptures ==
    { <<"res1", "x3", "block3">>, <<"res2", "x2", "block2">>,
      <<"res3", "x1", "block1">>, <<"res4", "x0", "block0">> }

IsPrefix(s, t) == Len(s) <= Len(t) /\ s = SubSeq(t, 1, Len(s))

\* the position of a statement in the log, 0 when it has not started
Pos(stmt) == IF \E k \in 1..Len(log) : log[k] = stmt
             THEN CHOOSE k \in 1..Len(log) : log[k] = stmt
             ELSE 0

C7_OrderNow ==
    /\ IsPrefix(log, StatedOrder)
    /\ \A t \in StatedCaptures :
          Pos(t[1]) > 0 =>
              /\ <<t[1], t[2]>> \in reads
              /\ Pos(t[3]) > 0 /\ Pos(t[3]) < Pos(t[1])
              /\ loc[t[2]].ok
    /\ \A e \in {"x0", "x1", "x2", "x3"} :
          /\ Cardinality({f \in {"res1", "res2", "res3", "res4"} : <<f, e>> \in reads}) <= 1
          /\ pc = "done" =>
                Cardinality({f \in {"res1", "res2", "res3", "res4"} : <<f, e>> \in reads}) = 1
    /\ pc = "done" => log = StatedOrder

C7_CaptureKept ==
    \A e \in {"x0", "x1", "x2", "x3"} : loc[e].ok => loc'[e] = loc[e]

\* C7: evaluation order and capture.  The statements of forward start in the
\* order block0..block4, (block5, res1), (block6, res2), (block7, res3),
\* (block8, res4), block9, conv15 (an evaluation that raises stops after a
\* prefix of it); a fusion that has started has read the captured output of
\* its encoder stage, which completed earlier in the same evaluation; a
\* captured output x0..x3, once assigned, never changes; and each of x0..x3
\* is read by exactly one fusion in a completed evaluation (never by two).
C7_OrderAndCapture == [] C7_OrderNow /\ [][C7_CaptureKept]_vars

C7_Witness ==
    /\ pc = "done"
    /\ log = StatedOrder
    /\ {<<"res1", "x3">>, <<"res2", "x2">>, <<"res3", "x1">>, <<"res4", "x0">>} \subseteq reads
    /\ HW(loc["x"]) = <<16, 48>>

\* the units of a stage whose first convolution has stride 2, and the units
\* of a stage that upsample
StridedUnits(m) == {k \in 1..Len(m) : m[k].conv1.subsample = 2}
UpsamplingUnits(m) == {k \in 1..Len(m) : m[k].kind = "UBasicBlock"}

\* C10: exact input-size condition.  The encoder has exactly four stride-2
\* units, the last unit of block1..block4, and the decoder exactly four x2
\* upsamplings, the first unit of block5..block8 (block0 and block9 have
\* neither); forward on (batch, 1, H, W) returns a tensor of shape
\* (batch, 1, H, W) if and only if H and W are multiples of 16: with both
\* multiples of 16 it never raises and what it returns has the input's
\* shape, otherwise it raises or returns a tensor of another shape.
C10_ExactSize ==
    /\ StridedUnits(block0) = {} /\ StridedUnits(block9) = {}
    /\ \A i \in 2..5 : StridedUnits(EncStage[i]) = {Len(EncStage[i])}
    /\ \A i \in 1..5 : UpsamplingUnits(EncStage[i]) = {}
    /\ UpsamplingUnits(block9) = {}
    /\ \A j \in 1..4 : UpsamplingUnits(DecStage[j]) = {1} /\ StridedUnits(DecStage[j]) = {}
    /\ pc = "raised" => ~Mult(16, loc["x"])
    /\ pc = "done" =>
          /\ loc["y"].ok
          /\ Shape(loc["y"]) = Shape(loc["x"]) <=> Mult(16, loc["x"])

C10_Witness ==
    /\ pc = "done"
    /\ Shape(loc["x"]) = <<1, 1, 48, 16>>
    /\ Shape(loc["y"]) = <<1, 1, 48, 16>>

\* the operand a shortcut unit built from args must add to y by the policy
\* of C6: x itself, or the 1x1 projection of x with the given stride
\* (followed by x2 upsampling in the decoder variant)
StatedOperand(kind, args, x) ==
    IF args.in_filters = args.nb_filters /\ args.subsample = 1 THEN x
    ELSE IF kind = "UShortcut"
         THEN Upsample(Conv2d(args.in_filters, args.nb_filters, 1, 1, args.subsample, 0, 0, x))
         ELSE Conv2d(args.in_filters, args.nb_filters, 1, 1, args.subsample, 0, 0, x)

\* C6: identity-or-projection policy.  A shortcut unit of either variant
\* passes x through unchanged if and only if in_filters = nb_filters and
\* subsample = 1, and adds the projection of x to y in every other case.
C6_ShortcutPolicy ==
    (upc # "new" /\ unit.kind \in {"Shortcut", "UShortcut"}) =>
        /\ ~unit.process <=> (uargs.in_filters = uargs.nb_filters /\ uargs.subsample = 1)
        /\ upc \in {"returned", "raised"} =>
              /\ uskip = StatedOperand(unit.kind, uargs, ux)
              /\ uout = Add(StatedOperand(unit.kind, uargs, ux), uy)

\* C8: stage output channel law.  In a stage built with in_filters,
\* nb_filters, repetitions (and is_first_layer), unit 0 maps in_filters to
\* nb_filters and every later unit maps nb_filters to nb_filters, and
\* whatever the stage returns has exactly nb_filters channels.
C8_StageChannels ==
    (upc # "new" /\ unit.kind \in {"ResidualBlock", "UpsamplingResidualBlock"}) =>
        /\ Len(unit.model) = uargs.repetitions
        /\ \A k \in 1..Len(unit.model) :
              /\ unit.model[k].conv1.in_filters = IF k = 1 THEN uargs.in_filters ELSE uargs.nb_filters
              /\ unit.model[k].conv1.nb_filters = uargs.nb_filters
              /\ unit.model[k].residual.nb_filters = uargs.nb_filters
              /\ unit.model[k].shortcut.in_filters = unit.model[k].conv1.in_filters
              /\ unit.model[k].shortcut.nb_filters = uargs.nb_filters
        /\ upc = "returned" =>
              /\ ux.c = uargs.in_filters
              /\ uout.c = uargs.nb_filters

C8_Witness ==
    /\ upc = "returned"
    /\ unit.kind = "UpsamplingResidualBlock"
    /\ uargs.in_filters = 3 /\ uargs.nb_filters = 2 /\ uargs.repetitions = 3
    /\ ux.c = 3 /\ uout.c = 2

\* C9: main path / shortcut path consistency.  In a residual unit of either
\* variant called with a tensor of in_filters channels, the tensor the main
\* path produces and the tensor the shortcut path adds to it have the same
\* shape, for every declared (in_filters, nb_filters), equal ones included.
C9_PathsAgree ==
    (/\ upc \in {"returned", "raised"}
     /\ unit.kind \in {"BasicBlock", "UBasicBlock"}
     /\ ux.c = uargs.in_filters) =>
        /\ umain.ok /\ uskip.ok
        /\ Shape(umain) = Shape(uskip)

====
